---- MODULE Spec2Model ----
(***************************************************************************)
(* A model of app.py: the Flask handler generate_pdf and the pipeline      *)
(* create_earth_depth_plot it calls.                                       *)
(*                                                                         *)
(* Start-up.  Line 14 of the source is app = Flask(_name_), and _name_     *)
(* (single underscores) is bound nowhere: importing the module raises      *)
(* NameError there, before any function is defined or any route is         *)
(* registered.  Init and ImportModule model that, and SpecAsWritten is the *)
(* program as it stands: it never serves a request.  The bodies of         *)
(* create_earth_depth_plot and generate_pdf (lines 16-157) are modelled    *)
(* as they are written, and are exercised from InitServing, the state of   *)
(* the service the specification describes (a process that answers POST    *)
(* /generate-pdf), which the code as written does not reach.               *)
(*                                                                         *)
(* Numbers.  Every real quantity of the program (x, z, sample values, the  *)
(* uniform and Gaussian draws) is held in fixed point with Unit = 16       *)
(* steps per whole unit, so 1.5 is 24, 75 is 1200, and a uniform draw U in *)
(* [0,1) is one of 0/16 .. 15/16, held as the integer 0..15.               *)
(*                                                                         *)
(* Random numbers.  numpy's process-wide generator (np.random) is one      *)
(* variable, rng.  The Mersenne Twister is replaced by a full-period       *)
(* linear congruential generator: what the model keeps of it is that       *)
(* seed(s) sets the state to a function of s alone, and that every scalar  *)
(* draw reads the state and advances it by one step.  A vector draw of k   *)
(* numbers advances it k steps; it is one atomic step of a thread         *)
(* (numpy holds the generator's lock for the whole call).  A uniform draw  *)
(* is the top four bits of the new state; a Gaussian draw (randn) is made  *)
(* from its top six bits, one of 64 quantiles of the normal distribution.  *)
(*                                                                         *)
(* Threads.  The handlers of concurrent requests run as threads of one     *)
(* interpreter; one runs at a time, and it can be preempted between any    *)
(* two statements.  MaxSwitches bounds the preemptions of a behaviour.     *)
(*                                                                         *)
(* Figures.  pyplot's registry of open figures (Gcf.figs, an ordered       *)
(* mapping whose last entry is the active figure) is the variable figs.    *)
(***************************************************************************)
EXTENDS Integers, Sequences, FiniteSets, TLC

\* ------------------------------------------------------------------ bounds
\* Number of sample points of a run (n_points is 800 in the program).
NPoints == 3
\* Nodes per axis of the grid (grid_resolution is 80 in the program).
GridRes == 5
\* Number of POST /generate-pdf requests the process receives.
NReq == 2
\* Number of times the interpreter takes the running handler's thread off
\* the processor before it has returned.
MaxSwitches == 1

\* --------------------------------------------------------- program constants
Seed678 == 678
DepthMin == 0
DepthMax == 80
SurfaceXMin == 1
SurfaceXMax == 6

\* ------------------------------------------------------------- fixed point
Unit == 2^4
FP(n) == n * Unit

\* ------------------------------------------------------ the global generator
Modulus == Unit * 64
LcgStep(s) == (77 * s + 135) % Modulus
\* np.random.seed(s): the state becomes a function of s alone.
NpRandomSeedKeep(cur, s) == cur
NpRandomSeed(cur, s) == s % Modulus

RECURSIVE Advance(_, _)
\* The state after k scalar draws.
Advance(s, k) == IF k = 0 THEN s ELSE Advance(LcgStep(s), k - 1)
\* The number a scalar draw returns: the top four bits of the new state,
\* a uniform U = Output/16 in [0,1).
Output(s) == s \div (Modulus \div Unit)
\* The k numbers of one vector draw made in state s.
DrawVec(s, k) == [i \in 1..k |-> Output(Advance(s, i))]
\* The number a Gaussian draw is made from: the top six bits of the new
\* state, one of Modulus/Unit levels.
OutputFine(s) == s \div Unit
\* The k numbers of one vector draw of randn made in state s.
DrawVecFine(s, k) == [i \in 1..k |-> OutputFine(Advance(s, i))]

\* np.random.uniform(lo, hi): lo + (hi - lo) * U.
Uniform(lo, hi, u) == FP(lo) + (hi - lo) * u
\* np.random.randn: a standard normal deviate, here the 64 quantiles of
\* the normal distribution at (u + 1/2)/64, in fixed point, for u one of
\* the 64 levels of OutputFine.  The deviates of the table lie within 2.44
\* of zero, numpy's are unbounded; the table is wide enough for the pocket
\* rule and the noise of line 53 to give samples, and grid nodes, below 55
\* and for the hard-rock rule and the noise to give them above 1000.
RandnTable ==
    <<-39, -32, -28, -26, -24, -22, -20, -19, -18, -17, -16, -15, -14, -13, -12, -11,
      -10, -10, -9, -8, -7, -7, -6, -5, -5, -4, -3, -3, -2, -2, -1, 0,
      0, 1, 2, 2, 3, 3, 4, 5, 5, 6, 7, 7, 8, 9, 10, 10,
      11, 12, 13, 14, 15, 16, 17, 18, 19, 20, 22, 24, 26, 28, 32, 39>>
Randn(u) == RandnTable[u + 1]

\* 15 * sin(x * pi / 2.5) in fixed point, rounded, for the sixteen values
\* x = 1 + 5*U that np.random.uniform(1, 6) takes in the model.
Sin15Table == <<228, 239, 214, 156, 74, -19, -109, -182, -228, -239, -214, -156, -74, 19, 109, 182>>
Sin15(x) == Sin15Table[((x - FP(SurfaceXMin)) \div (SurfaceXMax - SurfaceXMin)) + 1]

\* np.clip on one number.
Max(a, b) == IF a >= b THEN a ELSE b
Min(a, b) == IF a <= b THEN a ELSE b
NpClip(v, lo, hi) == Max(lo, Min(hi, v))

\* ------------------------------------------------- the zone rules, per sample
\* line 39-40: boundary_z_upper for a sample at x with Gaussian draw u.
BoundaryZUpperWide(x, u) == NpClip(FP(40) + Sin15(x) + (10 * Randn(u)) \div 2, FP(25), FP(60))
BoundaryZUpper(x, u) == NpClip(FP(40) + Sin15(x) + (10 * Randn(u)) \div 2, FP(25), FP(50))
\* line 41, 43
IsHardRockZone(z, b) == z < b
IsDeepZone(z, b) == z >= b
\* line 45, 48: the spatial part of the pocket masks (x > 1.5 is 2x > 3)
InPocket1Region(x, z) == 2 * x > 3 * Unit /\ 2 * x < 7 * Unit /\ z > FP(50) /\ z < FP(70)
InPocket2Region(x, z) == 2 * x > 9 * Unit /\ x < FP(6) /\ z > FP(55) /\ z < FP(75)
\* line 46, 49: np.random.rand(n) > 0.4
Retained(u) == 10 * u > 4 * Unit
\* line 51
IsDeepestLayerStrict(z) == z > FP(75)
IsDeepestLayer(z) == z >= FP(75)
\* lines 42, 44, 47, 50, 52: the value each rule assigns, from its draw u
HardRockValue(u) == FP(800) + 350 * u
DeepValue(u) == FP(450) + 250 * u
Pocket1Value(u) == FP(50) + 70 * u
Pocket2Value(u) == FP(100) + 100 * u
DeepestValue(u) == FP(600) + 300 * u
\* line 53: 100 * randn
GlobalNoise(u) == 100 * Randn(u)

\* --------------------------------------------------- the arrays of one run
Idx == 1..NPoints
CountTrue(mask) == Cardinality({i \in DOMAIN mask : mask[i]})
\* The place of sample i among the samples a mask selects.
Rank(mask, i) == Cardinality({j \in 1..i : mask[j]})
\* values[mask] = new, where new has one entry per selected sample.
AssignMasked(values, mask, new) == [i \in Idx |-> IF mask[i] THEN new[Rank(mask, i)] ELSE values[i]]

\* What savefig writes to the buffer and send_file sends: the figure's
\* contour data, and whether tight_layout was applied to this figure.
NoBody == [grid |-> << >>, tight |-> FALSE]
\* The local variables of create_earth_depth_plot and generate_pdf; << >>
\* is a name not yet bound.
NoLocals == [px |-> << >>, pz |-> << >>, bz |-> << >>, hard |-> << >>, deep |-> << >>, p1 |-> << >>, p2 |-> << >>, dl |-> << >>, values |-> << >>, grid |-> << >>, buf |-> NoBody]

\* line 34: points_x
DrawPointsX(l, d) == [l EXCEPT !.px = [i \in Idx |-> Uniform(SurfaceXMin, SurfaceXMax, d[i])]]
\* lines 35-37: points_z, values = zeros
DrawPointsZ(l, d) == [l EXCEPT !.pz = [i \in Idx |-> Uniform(DepthMin, DepthMax, d[i])], !.values = [i \in Idx |-> 0]]
\* lines 39-41: boundary_z_upper, is_hard_rock_zone
SplitBoundary(l, d) ==
    LET b == [i \in Idx |-> BoundaryZUpper(l.px[i], d[i])]
    IN  [l EXCEPT !.bz = b, !.hard = [i \in Idx |-> IsHardRockZone(l.pz[i], b[i])]]
\* line 42
AssignHardRock(l, d) == [l EXCEPT !.values = AssignMasked(l.values, l.hard, [j \in DOMAIN d |-> HardRockValue(d[j])])]
\* lines 43-44
DeepMask(l) == [i \in Idx |-> IsDeepZone(l.pz[i], l.bz[i])]
AssignDeep(l, d) == [l EXCEPT !.deep = DeepMask(l), !.values = AssignMasked(l.values, DeepMask(l), [j \in DOMAIN d |-> DeepValue(d[j])])]
\* lines 45-46
RetainPocket1(l, d) == [l EXCEPT !.p1 = [i \in Idx |-> l.deep[i] /\ InPocket1Region(l.px[i], l.pz[i]) /\ Retained(d[i])]]
\* line 47
AssignPocket1(l, d) == [l EXCEPT !.values = AssignMasked(l.values, l.p1, [j \in DOMAIN d |-> Pocket1Value(d[j])])]
\* lines 48-49
RetainPocket2(l, d) == [l EXCEPT !.p2 = [i \in Idx |-> l.deep[i] /\ InPocket2Region(l.px[i], l.pz[i]) /\ Retained(d[i])]]
\* line 50
AssignPocket2(l, d) == [l EXCEPT !.values = AssignMasked(l.values, l.p2, [j \in DOMAIN d |-> Pocket2Value(d[j])])]
\* lines 51-52
DeepestMask(l) == [i \in Idx |-> IsDeepestLayer(l.pz[i])]
AssignDeepest(l, d) == [l EXCEPT !.dl = DeepestMask(l), !.values = AssignMasked(l.values, DeepestMask(l), [j \in DOMAIN d |-> DeepestValue(d[j])])]
\* line 53
AddGlobalNoise(l, d) == [l EXCEPT !.values = [i \in Idx |-> l.values[i] + GlobalNoise(d[i])]]

\* ------------------------------------------------ griddata(method='linear')
\* scipy triangulates the samples (Delaunay, qhull) and interpolates linearly
\* inside each triangle; a node outside the convex hull gets nan.
\*
\* A grid cell: nan, or a number.
Nan == [defined |-> FALSE, v |-> 0]
Num(v) == [defined |-> TRUE, v |-> v]
\* Metric coordinates of a sample for the circumcircle test, in units of
\* 5/16: x - 1 and z, both divided by 5 (x - 1 is 5*U and z is 80*U).
MetricPt(l, i) == <<(l.px[i] - FP(SurfaceXMin)) \div (SurfaceXMax - SurfaceXMin), l.pz[i] \div (SurfaceXMax - SurfaceXMin)>>
Orient(a, b, c) == (b[1] - a[1]) * (c[2] - a[2]) - (b[2] - a[2]) * (c[1] - a[1])
Sq(a, d) == (a[1] - d[1]) * (a[1] - d[1]) + (a[2] - d[2]) * (a[2] - d[2])
\* The in-circle determinant of d against the triangle a b c.
InCircleDet(a, b, c, d) ==
      (a[1] - d[1]) * ((b[2] - d[2]) * Sq(c, d) - (c[2] - d[2]) * Sq(b, d))
    - (a[2] - d[2]) * ((b[1] - d[1]) * Sq(c, d) - (c[1] - d[1]) * Sq(b, d))
    + Sq(a, d) * ((b[1] - d[1]) * (c[2] - d[2]) - (c[1] - d[1]) * (b[2] - d[2]))
StrictlyInCircle(a, b, c, d) == IF Orient(a, b, c) > 0 THEN InCircleDet(a, b, c, d) > 0 ELSE InCircleDet(a, b, c, d) < 0
\* The Delaunay triangles: the proper triangles of samples whose open
\* circumdisc holds no sample.
Triangles(l) ==
    {t \in Idx \X Idx \X Idx :
        /\ t[1] < t[2] /\ t[2] < t[3]
        /\ Orient(MetricPt(l, t[1]), MetricPt(l, t[2]), MetricPt(l, t[3])) # 0
        /\ \A m \in Idx \ {t[1], t[2], t[3]} :
              ~StrictlyInCircle(MetricPt(l, t[1]), MetricPt(l, t[2]), MetricPt(l, t[3]), MetricPt(l, m))}
\* qhull cannot build an initial simplex: fewer than three samples, or all
\* of them on one line.
Degenerate(l) == Triangles(l) = {}

\* np.linspace + np.meshgrid, lines 31-33: node (i, j), i and j in
\* 0..GridRes-1, lies at U-coordinates (i/(GridRes-1), j/(GridRes-1)) of the
\* domain, and sample k at (u_x/16, u_z/16).  Both are held multiplied by
\* 16*(GridRes-1); barycentric weights do not change under this scaling.
GridSteps == GridRes - 1
NodePt(i, j) == <<Unit * i, Unit * j>>
SamplePt(l, k) == <<GridSteps * ((l.px[k] - FP(SurfaceXMin)) \div (SurfaceXMax - SurfaceXMin)), GridSteps * ((l.pz[k] - FP(DepthMin)) \div (DepthMax - DepthMin))>>
\* The weights of node n in triangle t, made non-negative inside.
Weights(l, t, n) ==
    LET a == SamplePt(l, t[1])
        b == SamplePt(l, t[2])
        c == SamplePt(l, t[3])
        sgn == IF Orient(a, b, c) > 0 THEN 1 ELSE -1
    IN  <<sgn * Orient(n, b, c), sgn * Orient(a, n, c), sgn * Orient(a, b, n)>>
Contains(l, t, n) ==
    LET w == Weights(l, t, n)
    IN  w[1] >= 0 /\ w[2] >= 0 /\ w[3] >= 0
TriKey(t) == (t[1] * (NPoints + 1) + t[2]) * (NPoints + 1) + t[3]
\* The value at node n, given the triangulation tris of the samples: that
\* of the triangle that holds n, nan when none does.
InterpIn(l, tris, n) ==
    LET ts == {t \in tris : Contains(l, t, n)}
    IN  IF ts = {} THEN Nan
        ELSE LET t == CHOOSE t \in ts : \A o \in ts : TriKey(t) <= TriKey(o)
                 w == Weights(l, t, n)
             IN  Num((w[1] * l.values[t[1]] + w[2] * l.values[t[2]] + w[3] * l.values[t[3]]) \div (w[1] + w[2] + w[3]))
InterpAt(l, n) == InterpIn(l, Triangles(l), n)
\* line 55: data_interpolated, rows by depth node j, columns by x node i;
\* the samples are triangulated once, before any node is looked up.
GridData(l) ==
    LET tris == {t : t \in Triangles(l)}
    IN  [j \in 1..GridRes |-> [i \in 1..GridRes |-> InterpIn(l, tris, NodePt(i - 1, j - 1))]]
\* line 56: np.clip of the grid; np.clip leaves nan as nan
ClipCellNoLower(c, lo, hi) == IF c.defined THEN Num(Min(hi, c.v)) ELSE Nan
ClipCell(c, lo, hi) == IF c.defined THEN Num(NpClip(c.v, lo, hi)) ELSE Nan
ClipGrid(g) == [j \in 1..GridRes |-> [i \in 1..GridRes |-> ClipCell(g[j][i], FP(55), FP(1000))]]

\* ------------------------------------------------------------------- state
VARIABLES
    seedArg,    \* the argument of np.random.seed at line 23
    rng,        \* the state of numpy's process-wide generator
    figs,       \* pyplot's open figures, oldest first; the last is active
    laidOut,    \* the figures tight_layout has been applied to
    pc,         \* pc[r]: where request r's handler stands
    payload,    \* payload[r]: the body of request r
    loc,        \* loc[r]: the handler's local variables
    exc,        \* exc[r]: the text of the exception the handler caught
    resp,       \* resp[r]: the response returned for request r
    running,    \* the request whose thread holds the interpreter lock, 0: none
    switches,   \* preemptions so far
    proc        \* the process: "importing", "crashed" or "serving"

vars == <<seedArg, rng, figs, laidOut, pc, payload, loc, exc, resp, running, switches, proc>>

Requests == 1..NReq
Payloads == {"json", "malformed"}
NoResponse == [status |-> 0, error |-> "", message |-> "", body |-> NoBody]
\* The figure plt.figure() makes for request r at line 59, and the one
\* pyplot's gcf() makes when tight_layout finds no open figure.
Fig(r) == <<r, "fig">>
GcfFig(r) == <<r, "gcf">>

\* The order of the statements that draw random numbers, lines 34-53.
StageAfterDeepFirst(s) ==
    CASE s = "px" -> "pz" [] s = "pz" -> "bnd" [] s = "bnd" -> "deep"
      [] s = "deep" -> "hard" [] s = "hard" -> "ret1" [] s = "ret1" -> "val1"
      [] s = "val1" -> "ret2" [] s = "ret2" -> "val2" [] s = "val2" -> "deepest"
      [] s = "deepest" -> "noise" [] s = "noise" -> "interp"
StageAfter(s) ==
    CASE s = "px" -> "pz" [] s = "pz" -> "bnd" [] s = "bnd" -> "hard"
      [] s = "hard" -> "deep" [] s = "deep" -> "ret1" [] s = "ret1" -> "val1"
      [] s = "val1" -> "ret2" [] s = "ret2" -> "val2" [] s = "val2" -> "deepest"
      [] s = "deepest" -> "noise" [] s = "noise" -> "interp"

InFlight(r) == pc[r] \notin {"idle", "done"}

\* The interpreter is about to import app.py: nothing has run yet.
Init ==
    /\ proc = "importing"
    /\ seedArg = Seed678
    /\ rng = 0
    /\ figs = << >>
    /\ laidOut = {}
    /\ pc = [r \in Requests |-> "idle"]
    /\ payload = [r \in Requests |-> "json"]
    /\ loc = [r \in Requests |-> NoLocals]
    /\ exc = [r \in Requests |-> ""]
    /\ resp = [r \in Requests |-> NoResponse]
    /\ running = 0
    /\ switches = 0

\* lines 1-14: the imports run (numpy seeds its global generator from the
\* operating system, so its state is arbitrary), then Flask(_name_) raises
\* NameError: the import fails, no handler exists.
ImportModule ==
    /\ proc = "importing"
    /\ proc' = "crashed"
    /\ rng' \in 0..(Modulus - 1)
    /\ UNCHANGED <<seedArg, figs, laidOut, pc, payload, loc, exc, resp, running, switches>>

\* The service of the specification: the module has been imported, the
\* route is registered, no request has arrived; the generator holds the
\* arbitrary state numpy's import gave it.
InitServing ==
    /\ proc = "serving"
    /\ seedArg = Seed678
    /\ rng \in 0..(Modulus - 1)
    /\ figs = << >>
    /\ laidOut = {}
    /\ pc = [r \in Requests |-> "idle"]
    /\ payload = [r \in Requests |-> "json"]
    /\ loc = [r \in Requests |-> NoLocals]
    /\ exc = [r \in Requests |-> ""]
    /\ resp = [r \in Requests |-> NoResponse]
    /\ running = 0
    /\ switches = 0

\* --------------------------------------------------------------- the handler
\* A request arrives (requests are numbered in their order of arrival); at
\* most `threads` handlers run at a time.
Receive(r, threads) ==
    /\ proc = "serving"
    /\ pc[r] = "idle"
    /\ \A q \in Requests : q < r => pc[q] # "idle"
    /\ Cardinality({q \in Requests : InFlight(q)}) < threads
    /\ \E p \in Payloads : payload' = [payload EXCEPT ![r] = p]
    /\ pc' = [pc EXCEPT ![r] = "parse"]
    /\ UNCHANGED <<proc, seedArg, rng, figs, laidOut, loc, exc, resp, running, switches>>

\* One interpreter, one lock: handler r takes a step when its thread runs.
\* It keeps running, or takes over from a thread that has returned, or
\* preempts the running thread.
Sched(r) ==
    IF running = r THEN UNCHANGED <<running, switches>>
    ELSE /\ running' = r
         /\ IF running \in Requests /\ InFlight(running)
            THEN switches < MaxSwitches /\ switches' = switches + 1
            ELSE UNCHANGED switches

\* An exception propagates to the except clause at line 154.
Raise(r, text) ==
    /\ pc' = [pc EXCEPT ![r] = "except"]
    /\ exc' = [exc EXCEPT ![r] = text]
    /\ loc' = [loc EXCEPT ![r] = NoLocals]

\* lines 123-130: request.json; a payload that cannot be parsed raises, and
\* the handler returns 400.
ParseRequestFallThrough(r) ==
    /\ pc[r] = "parse"
    /\ Sched(r)
    /\ pc' = [pc EXCEPT ![r] = "seed"]
    /\ UNCHANGED <<proc, seedArg, rng, figs, laidOut, payload, loc, exc, resp>>
ParseRequest(r) ==
    /\ pc[r] = "parse"
    /\ Sched(r)
    /\ IF payload[r] = "json"
       THEN /\ pc' = [pc EXCEPT ![r] = "seed"]
            /\ UNCHANGED <<exc, resp>>
       ELSE /\ pc' = [pc EXCEPT ![r] = "done"]
            /\ exc' = [exc EXCEPT ![r] = "BadRequest"]
            /\ resp' = [resp EXCEPT ![r] = [status |-> 400, error |-> "Invalid JSON data", message |-> "BadRequest", body |-> NoBody]]
    /\ UNCHANGED <<proc, seedArg, rng, figs, laidOut, payload, loc>>

\* line 23
SeedRng(r) ==
    /\ pc[r] = "seed"
    /\ Sched(r)
    /\ rng' = NpRandomSeed(rng, seedArg)
    /\ pc' = [pc EXCEPT ![r] = "px"]
    /\ UNCHANGED <<proc, seedArg, figs, laidOut, payload, loc, exc, resp>>

\* The number of draws the statement at `stage` makes, and what it assigns.
StageCount(stage, l) ==
    CASE stage = "hard" -> CountTrue(l.hard)
      [] stage = "deep" -> CountTrue(DeepMask(l))
      [] stage = "val1" -> CountTrue(l.p1)
      [] stage = "val2" -> CountTrue(l.p2)
      [] stage = "deepest" -> CountTrue(DeepestMask(l))
      [] OTHER -> NPoints
\* The numbers the statement at `stage` draws in generator state s: randn
\* at lines 39 and 53, uniform numbers elsewhere.
StageDraw(stage, s, k) == IF stage \in {"bnd", "noise"} THEN DrawVecFine(s, k) ELSE DrawVec(s, k)
StageApply(stage, l, d) ==
    CASE stage = "px" -> DrawPointsX(l, d)
      [] stage = "pz" -> DrawPointsZ(l, d)
      [] stage = "bnd" -> SplitBoundary(l, d)
      [] stage = "hard" -> AssignHardRock(l, d)
      [] stage = "deep" -> AssignDeep(l, d)
      [] stage = "ret1" -> RetainPocket1(l, d)
      [] stage = "val1" -> AssignPocket1(l, d)
      [] stage = "ret2" -> RetainPocket2(l, d)
      [] stage = "val2" -> AssignPocket2(l, d)
      [] stage = "deepest" -> AssignDeepest(l, d)
      [] stage = "noise" -> AddGlobalNoise(l, d)

\* One statement that draws from the global generator and assigns: the
\* call is atomic, and the generator advances by the numbers drawn.
DrawStep(r, stage) ==
    /\ pc[r] = stage
    /\ Sched(r)
    /\ rng' = Advance(rng, StageCount(stage, loc[r]))
    /\ loc' = [loc EXCEPT ![r] = StageApply(stage, loc[r], StageDraw(stage, rng, StageCount(stage, loc[r])))]
    /\ pc' = [pc EXCEPT ![r] = StageAfter(stage)]
    /\ UNCHANGED <<proc, seedArg, figs, laidOut, payload, exc, resp>>

PointsX(r) == DrawStep(r, "px")
PointsZ(r) == DrawStep(r, "pz")
Boundary(r) == DrawStep(r, "bnd")
HardRock(r) == DrawStep(r, "hard")
Deep(r) == DrawStep(r, "deep")
Pocket1Retention(r) == DrawStep(r, "ret1")
Pocket1Values(r) == DrawStep(r, "val1")
Pocket2Retention(r) == DrawStep(r, "ret2")
Pocket2Values(r) == DrawStep(r, "val2")
DeepestLayer(r) == DrawStep(r, "deepest")
GlobalNoiseStep(r) == DrawStep(r, "noise")

\* lines 55-56: griddata raises on a degenerate sample set
Interpolate(r) ==
    /\ pc[r] = "interp"
    /\ Sched(r)
    /\ IF Degenerate(loc[r])
       THEN Raise(r, "QhullError")
       ELSE /\ loc' = [loc EXCEPT ![r].grid = ClipGrid(GridData(loc[r]))]
            /\ pc' = [pc EXCEPT ![r] = "figure"]
            /\ UNCHANGED exc
    /\ UNCHANGED <<proc, seedArg, rng, figs, laidOut, payload, resp>>

\* line 59: plt.figure() registers a new figure and makes it the active one
PltFigure(r) ==
    /\ pc[r] = "figure"
    /\ Sched(r)
    /\ figs' = Append(figs, Fig(r))
    /\ pc' = [pc EXCEPT ![r] = "compose"]
    /\ UNCHANGED <<proc, seedArg, rng, laidOut, payload, loc, exc, resp>>

\* lines 60-109: axes, contourf, texts, colorbar; any of them may raise
Compose(r) ==
    /\ pc[r] = "compose"
    /\ Sched(r)
    /\ \/ /\ pc' = [pc EXCEPT ![r] = "layout"]
          /\ UNCHANGED <<loc, exc>>
       \/ Raise(r, "RenderingError")
    /\ UNCHANGED <<proc, seedArg, rng, figs, laidOut, payload, resp>>

\* lines 111-114: plt.tight_layout() acts on gcf(): the active figure, or a
\* new one when no figure is open; then the function returns fig, and of
\* its locals only what the figure holds (the contour data) lives on.
TightLayout(r) ==
    /\ pc[r] = "layout"
    /\ Sched(r)
    /\ IF figs = << >>
       THEN /\ figs' = <<GcfFig(r)>>
            /\ laidOut' = laidOut \cup {GcfFig(r)}
       ELSE /\ figs' = figs
            /\ laidOut' = laidOut \cup {figs[Len(figs)]}
    /\ loc' = [loc EXCEPT ![r] = [NoLocals EXCEPT !.grid = loc[r].grid]]
    /\ pc' = [pc EXCEPT ![r] = "savefig"]
    /\ UNCHANGED <<proc, seedArg, rng, payload, exc, resp>>

\* lines 137-141: fig.savefig(buf); may raise
SaveFig(r) ==
    /\ pc[r] = "savefig"
    /\ Sched(r)
    /\ \/ /\ loc' = [loc EXCEPT ![r].buf = [grid |-> loc[r].grid, tight |-> Fig(r) \in laidOut]]
          /\ pc' = [pc EXCEPT ![r] = "close"]
          /\ UNCHANGED exc
       \/ Raise(r, "SavefigError")
    /\ UNCHANGED <<proc, seedArg, rng, figs, laidOut, payload, resp>>

\* plt.close(fig): the figure leaves the registry, if it is in it
PltClose(fs, f) == SelectSeq(fs, LAMBDA g : g # f)
\* plt.close('all')
PltCloseAll(fs) == << >>

\* line 144
CloseFig(r) ==
    /\ pc[r] = "close"
    /\ Sched(r)
    /\ figs' = PltClose(figs, Fig(r))
    /\ pc' = [pc EXCEPT ![r] = "send"]
    /\ UNCHANGED <<proc, seedArg, rng, laidOut, payload, loc, exc, resp>>

\* lines 147-152: send_file; may raise
SendFile(r) ==
    /\ pc[r] = "send"
    /\ Sched(r)
    /\ \/ /\ resp' = [resp EXCEPT ![r] = [status |-> 200, error |-> "", message |-> "", body |-> loc[r].buf]]
          /\ pc' = [pc EXCEPT ![r] = "done"]
          /\ loc' = [loc EXCEPT ![r] = NoLocals]
          /\ UNCHANGED exc
       \/ /\ Raise(r, "SendFileError")
          /\ UNCHANGED resp
    /\ UNCHANGED <<proc, seedArg, rng, figs, laidOut, payload>>

\* lines 154-157: close every open figure, answer 500 with str(e)
HandleException(r) ==
    /\ pc[r] = "except"
    /\ Sched(r)
    /\ figs' = PltCloseAll(figs)
    /\ resp' = [resp EXCEPT ![r] = [status |-> 500, error |-> "Failed to generate plot", message |-> exc[r], body |-> NoBody]]
    /\ pc' = [pc EXCEPT ![r] = "done"]
    /\ UNCHANGED <<proc, seedArg, rng, laidOut, payload, loc, exc>>

Handler(r) ==
    \/ ParseRequest(r)
    \/ SeedRng(r)
    \/ PointsX(r)
    \/ PointsZ(r)
    \/ Boundary(r)
    \/ HardRock(r)
    \/ Deep(r)
    \/ Pocket1Retention(r)
    \/ Pocket1Values(r)
    \/ Pocket2Retention(r)
    \/ Pocket2Values(r)
    \/ DeepestLayer(r)
    \/ GlobalNoiseStep(r)
    \/ Interpolate(r)
    \/ PltFigure(r)
    \/ Compose(r)
    \/ TightLayout(r)
    \/ SaveFig(r)
    \/ CloseFig(r)
    \/ SendFile(r)
    \/ HandleException(r)

\* The threaded server (app.run, line 167): every request has its own
\* thread, and the threads interleave between statements.
Next == \E r \in Requests : Receive(r, NReq) \/ Handler(r)
Spec == InitServing /\ [][Next]_vars

\* One handler at a time (a single synchronous worker, line 165).
NextSeq == \E r \in Requests : Receive(r, 1) \/ Handler(r)
SpecSeq == InitServing /\ [][NextSeq]_vars

\* The program as written: the import, then whatever the server would do.
NextAsWritten == ImportModule \/ Next
SpecAsWritten == Init /\ [][NextAsWritten]_vars
\* As written, the process never serves and no handler ever runs.
AsWrittenNeverServes == proc # "serving" /\ \A r \in Requests : pc[r] = "idle" /\ resp[r] = NoResponse

\* The pipeline alone, for any seed: one request, and np.random.seed given
\* any argument instead of 678.
InitSeeds ==
    /\ proc = "serving"
    /\ seedArg \in 0..(Modulus - 1)
    /\ rng = 0
    /\ figs = << >>
    /\ laidOut = {}
    /\ pc = [r \in Requests |-> "idle"]
    /\ payload = [r \in Requests |-> "json"]
    /\ loc = [r \in Requests |-> NoLocals]
    /\ exc = [r \in Requests |-> ""]
    /\ resp = [r \in Requests |-> NoResponse]
    /\ running = 0
    /\ switches = 0
NextOne == Receive(1, 1) \/ Handler(1)
SpecSeeds == InitSeeds /\ [][NextOne]_vars

\* ------------------------------------------------------------------ claims
Range(f) == {f[i] : i \in DOMAIN f}
DrawStages == <<"px", "pz", "bnd", "hard", "deep", "ret1", "val1", "ret2", "val2", "deepest", "noise">>
\* n, when pc value s is the place before the n-th drawing statement, or
\* (n = 12) the place after the last; 0 elsewhere.
StageIndex(s) ==
    IF s = "interp" THEN Len(DrawStages) + 1
    ELSE IF s \in Range(DrawStages) THEN CHOOSE n \in DOMAIN DrawStages : DrawStages[n] = s
    ELSE 0
RECURSIVE SoloRun(_)
\* A run of create_earth_depth_plot that nothing interleaves with, after
\* its first n drawing statements: its locals and the generator state.
SoloRun(n) ==
    IF n = 0 THEN [l |-> NoLocals, s |-> seedArg % Modulus]
    ELSE LET prev == SoloRun(n - 1)
             k == StageCount(DrawStages[n], prev.l)
         IN  [l |-> StageApply(DrawStages[n], prev.l, StageDraw(DrawStages[n], prev.s, k)), s |-> Advance(prev.s, k)]
SoloGrid == ClipGrid(GridData(SoloRun(Len(DrawStages)).l))

\* C1: (claimed) under concurrent requests every run's draws, and so its
\* sample points and values, are those of the same run made alone.
C1_RunsAsIfAlone ==
    \A r \in Requests : StageIndex(pc[r]) > 0 =>
        /\ loc[r].px = SoloRun(StageIndex(pc[r]) - 1).l.px
        /\ loc[r].pz = SoloRun(StageIndex(pc[r]) - 1).l.pz
        /\ loc[r].values = SoloRun(StageIndex(pc[r]) - 1).l.values

\* C2: with one handler at a time, every run has the sample points, the
\* values and the grid of the run a fresh process makes, so any two runs
\* agree, and so do the documents of any two successful requests, whatever
\* ran (and failed or not) before them.
C2_SequentialRunsIdentical ==
    /\ \A r \in Requests : StageIndex(pc[r]) > 0 => loc[r] = SoloRun(StageIndex(pc[r]) - 1).l
    /\ \A r \in Requests : pc[r] \in {"figure", "compose", "layout", "savefig"} => loc[r].grid = SoloGrid
    /\ \A r, q \in Requests : resp[r].status = 200 /\ resp[q].status = 200 => resp[r].body.grid = resp[q].body.grid
C2_Witness == \E r, q \in Requests : r < q /\ resp[r].status = 500 /\ resp[q].status = 200 /\ resp[q].body.grid = SoloGrid

\* C3: just before the global noise statement, every sample with z >= 75
\* holds a deepest-layer value, in [600, 900).
C3_DeepestOverrides ==
    \A r \in Requests : pc[r] = "noise" =>
        \A i \in Idx : loc[r].pz[i] >= FP(75) => loc[r].values[i] >= FP(600) /\ loc[r].values[i] < FP(900)
C3_Witness == \E r \in Requests : pc[r] = "noise" /\ \E i \in Idx : loc[r].pz[i] = FP(75) /\ loc[r].deep[i]

\* C4: after interpolation and clipping, a node inside the convex hull of
\* the samples (a node some triangle of three samples holds, whether or
\* not griddata's triangulation uses that triangle) holds a number in
\* [55, 1000], and a node outside the hull, which griddata leaves
\* undefined, is still undefined.
C4_InHull(l, n) ==
    \E a, b, c \in Idx :
        /\ Orient(SamplePt(l, a), SamplePt(l, b), SamplePt(l, c)) > 0
        /\ Orient(n, SamplePt(l, b), SamplePt(l, c)) >= 0
        /\ Orient(SamplePt(l, a), n, SamplePt(l, c)) >= 0
        /\ Orient(SamplePt(l, a), SamplePt(l, b), n) >= 0
C4_ClippedGrid ==
    \A r \in Requests : pc[r] \in {"figure", "compose", "layout"} =>
        \A j, i \in 1..GridRes :
            IF C4_InHull(loc[r], NodePt(i - 1, j - 1))
            THEN /\ loc[r].grid[j][i].defined
                 /\ loc[r].grid[j][i].v >= FP(55)
                 /\ loc[r].grid[j][i].v <= FP(1000)
            ELSE loc[r].grid[j][i] = Nan
\* One grid shows the three cases: a node the interpolation puts below 55,
\* now at 55; one it puts above 1000, now at 1000; one it leaves undefined.
C4_RawAt(l, i, j) == InterpAt(l, NodePt(i - 1, j - 1))
C4_Witness ==
    \E r \in Requests :
        /\ pc[r] = "figure"
        /\ \E j, i \in 1..GridRes : C4_RawAt(loc[r], i, j).defined /\ C4_RawAt(loc[r], i, j).v < FP(55) /\ loc[r].grid[j][i] = Num(FP(55))
        /\ \E j, i \in 1..GridRes : C4_RawAt(loc[r], i, j).defined /\ C4_RawAt(loc[r], i, j).v > FP(1000) /\ loc[r].grid[j][i] = Num(FP(1000))
        /\ \E j, i \in 1..GridRes : ~C4_RawAt(loc[r], i, j).defined /\ loc[r].grid[j][i] = Nan

\* C5: the step a handler takes on a payload that cannot be parsed ends
\* the request with status 400, without entering the pipeline, and leaves
\* the generator and the open figures as they were.
C5_MalformedStep(r) == pc[r] = "parse" /\ payload[r] = "malformed" /\ pc'[r] # "parse"
C5_InvalidPayloadRejected ==
    [][\A r \in Requests : C5_MalformedStep(r) =>
          /\ pc'[r] = "done"
          /\ resp'[r].status = 400
          /\ loc'[r] = NoLocals
          /\ rng' = rng
          /\ figs' = figs]_vars
C5_Witness == \E r, q \in Requests : pc[r] = "done" /\ resp[r].status = 400 /\ Fig(q) \in Range(figs)

\* C6: (claimed) a 500 response does not carry the text of the exception
\* that was raised.
C6_GenericMessage == \A r \in Requests : resp[r].status = 500 => resp[r].message # exc[r]

\* C7: (claimed) when a handler that got past parsing has returned, no
\* figure the request created is open: neither the one plt.figure() made
\* at line 59 nor one pyplot made for it at line 111.
C7_FiguresClosedAtReturn ==
    \A r \in Requests : pc[r] = "done" /\ payload[r] = "json" =>
        Fig(r) \notin Range(figs) /\ GcfFig(r) \notin Range(figs)

\* C8: (claimed) from the creation of its figure until it closes it
\* itself, a request's figure stays open whatever other requests do.
C8_FigureIsolated == \A q \in Requests : pc[q] \in {"compose", "layout", "savefig", "close"} => Fig(q) \in Range(figs)

\* C9: the draws are taken from the stream in the order of the rules.  With
\* Out(n) the n-th number drawn after seeding, N the number of samples and
\* H, P1, P2, DL the sizes of the hard-rock, pocket and deepest masks: x is
\* Out(1..N), z Out(N+1..2N), the boundary noise Out(2N+1..3N), hard-rock
\* values the next H, deep values up to 4N, pocket 1 retention up to 5N, its
\* values the next P1, pocket 2 retention the next N, its values the next
\* P2, deepest values the next DL, and the global noise the last N; each
\* sample holds the value of the last rule that matched it.
Out(n) == Output(Advance(seedArg % Modulus, n))
OutFine(n) == OutputFine(Advance(seedArg % Modulus, n))
C9_Base(l, i) ==
    LET n == NPoints
        h == CountTrue(l.hard)
        c1 == CountTrue(l.p1)
        c2 == CountTrue(l.p2)
    IN  IF l.dl[i] THEN DeepestValue(Out(6 * n + c1 + c2 + Rank(l.dl, i)))
        ELSE IF l.p2[i] THEN Pocket2Value(Out(6 * n + c1 + Rank(l.p2, i)))
        ELSE IF l.p1[i] THEN Pocket1Value(Out(5 * n + Rank(l.p1, i)))
        ELSE IF l.hard[i] THEN HardRockValue(Out(3 * n + Rank(l.hard, i)))
        ELSE DeepValue(Out(3 * n + h + Rank(l.deep, i)))
C9_Total(l) == 7 * NPoints + CountTrue(l.p1) + CountTrue(l.p2) + CountTrue(l.dl)
C9_DrawOrder ==
    \A r \in Requests : pc[r] = "interp" =>
        /\ rng = Advance(seedArg % Modulus, C9_Total(loc[r]))
        /\ \A i \in Idx :
            /\ loc[r].px[i] = Uniform(SurfaceXMin, SurfaceXMax, Out(i))
            /\ loc[r].pz[i] = Uniform(DepthMin, DepthMax, Out(NPoints + i))
            /\ loc[r].bz[i] = BoundaryZUpper(loc[r].px[i], OutFine(2 * NPoints + i))
            /\ loc[r].p1[i] = (loc[r].deep[i] /\ InPocket1Region(loc[r].px[i], loc[r].pz[i]) /\ Retained(Out(4 * NPoints + i)))
            /\ loc[r].p2[i] = (loc[r].deep[i] /\ InPocket2Region(loc[r].px[i], loc[r].pz[i]) /\ Retained(Out(5 * NPoints + CountTrue(loc[r].p1) + i)))
            /\ loc[r].values[i] = C9_Base(loc[r], i) + GlobalNoise(OutFine(C9_Total(loc[r]) - NPoints + i))
C9_Witness ==
    \E r \in Requests : /\ pc[r] = "interp"
                        /\ CountTrue(loc[r].hard) > 0
                        /\ CountTrue(loc[r].deep) > 0
                        /\ CountTrue(loc[r].p1) + CountTrue(loc[r].p2) > 0

\* C10: at most one of the three override rules matches a sample, and a
\* sample in a pocket's region is a deep-zone sample, never a hard-rock
\* one.
C10_AtMostOne(a, b, c) == ~(a /\ b) /\ ~(a /\ c) /\ ~(b /\ c)
C10_OverridesDisjoint ==
    \A r \in Requests : pc[r] \in {"noise", "interp"} =>
        \A i \in Idx :
            /\ C10_AtMostOne(loc[r].p1[i], loc[r].p2[i], loc[r].dl[i])
            /\ C10_AtMostOne(InPocket1Region(loc[r].px[i], loc[r].pz[i]), InPocket2Region(loc[r].px[i], loc[r].pz[i]), IsDeepestLayer(loc[r].pz[i]))
            /\ (InPocket1Region(loc[r].px[i], loc[r].pz[i]) \/ InPocket2Region(loc[r].px[i], loc[r].pz[i])) => (loc[r].deep[i] /\ ~loc[r].hard[i])
C10_Witness ==
    \E r \in Requests : pc[r] = "noise" /\ \E i, k \in Idx : loc[r].p1[i] /\ loc[r].p2[k]

====
